---- MODULE Spec2Model ----
(***************************************************************************)
(* The chat front end of the STEM helper (stem_chatbot/frontend/script.js) *)
(* as a state machine: the DOM fields the script reads and writes, the     *)
(* FileReaders and fetch calls it has started, and one action per event    *)
(* handler or asynchronous continuation.                                   *)
(*                                                                         *)
(* Each action is one run-to-completion task of the browser's event loop:  *)
(* a handler together with every function it calls, up to its next await.  *)
(* A continuation that is resumed by a promise the script itself settles   *)
(* (makeApiCall returning into handleSubmit) runs in the same task, since  *)
(* only microtasks separate the two.                                       *)
(***************************************************************************)
EXTENDS Naturals, Sequences, FiniteSets, Bags, TLC

\* ---------------------------------------------------------------- bounds
MaxSubmits == 2     \* accepted submissions in one run
MaxReaders == 1     \* preview FileReaders pending at once
MaxRawLen  == 3     \* characters in an enumerated response text
MaxItems   == 2     \* lines in a list of a response text

\* ---------------------------------------------------------------- values
\* a JavaScript null / undefined where the other values are strings
null      == "<null>"
undefined == "<undefined>"
\* a JavaScript null where the other values are texts (sequences of characters)
nullText  == <<null>>

\* what the user may type: nothing, white space only, text, text in white space
Texts == {<<>>, <<" ">>, <<"x">>, <<" ", "x", " ">>}

\* white space, as \s and String.prototype.trim see it
IsSpace(c) == c \in {" ", "\n"}

\* String.prototype.trim: strips the white space at both ends
RECURSIVE TrimStart(_)
TrimStart(s) ==
    IF Len(s) > 0 /\ IsSpace(Head(s)) THEN TrimStart(Tail(s)) ELSE s

RECURSIVE TrimEnd(_)
TrimEnd(s) ==
    IF Len(s) > 0 /\ IsSpace(Head(SubSeq(s, Len(s), Len(s))))
    THEN TrimEnd(SubSeq(s, 1, Len(s) - 1)) ELSE s

\* a trim that strips nothing
trim_KeepsSpaces(s) == s

trim(s) == TrimEnd(TrimStart(s))

\* the files the user can pick, with their media types
ImageFiles == {"photo.png"}
OtherFiles == {"notes.txt"}
Files      == ImageFiles \cup OtherFiles

FileType(f) == IF f \in ImageFiles THEN "image/png" ELSE "text/plain"

\* the file's bytes in base64, as readAsDataURL encodes them
Base64(f) == "base64(" \o f \o ")"

\* file.type.startsWith('image/')
IsImageType(f) == FileType(f) = "image/png"

\* a read whose result has nothing after its comma
readAsDataURL_NoData(f) == <<"data:" \o FileType(f) \o ";base64", null>>

\* FileReader.readAsDataURL: the result, already cut at its comma
readAsDataURL(f) == <<"data:" \o FileType(f) \o ";base64", Base64(f)>>

\* truthiness of a string-or-undefined value
Truthy(v) == v # undefined /\ v # null /\ v # ""

\* a || b
OrElse(a, b) == IF Truthy(a) THEN a ELSE b

\* The value of a content field of the parsed body: absent, a string, or an
\* array of strings (the README's form of practice_questions).
Absent         == [type |-> "undefined", text |-> "", items |-> <<>>]
JString(text)  == [type |-> "string", text |-> text, items |-> <<>>]
JArray(items)  == [type |-> "array", text |-> "", items |-> items]
\* a string-or-undefined as such a value
JValue(v)      == IF v = undefined THEN Absent ELSE JString(v)

\* truthiness of such a value: an array is truthy even when it is empty
TruthyValue(v) == v.type = "array" \/ (v.type = "string" /\ v.text # "")

\* Array.prototype.join with its default separator
RECURSIVE Join(_)
Join(items) ==
    IF items = <<>> THEN ""
    ELSE IF Len(items) = 1 THEN items[1]
    ELSE items[1] \o "," \o Join(Tail(items))

\* the string that div.textContent = value stores
ToText(v) == IF v.type = "array" THEN Join(v.items) ELSE v.text

\* ---------------------------------------------------------------- renderer
\* advancedMarkdownToHtml works on strings: the texts of a response are TLA+
\* strings, and each html.replace(regex, ...) is a scan of the string from left
\* to right that replaces every match of its regex.

\* a TLA+ string cannot hold the backtick: the model writes it as a tilde, a
\* character that no text of the model contains otherwise
Backtick == "~"
Fence    == Backtick \o Backtick \o Backtick

\* the character of s at index i, as a string of length one
CharAt(s, i) == IF 1 <= i /\ i <= Len(s) THEN SubSeq(s, i, i) ELSE ""

\* s holds pat at index i
At(s, i, pat) ==
    i >= 1 /\ i + Len(pat) - 1 <= Len(s) /\ SubSeq(s, i, i + Len(pat) - 1) = pat

Least(S) == CHOOSE x \in S : \A y \in S : x <= y

\* the first index from i on at which pat occurs, 0 if there is none
IndexOf(s, i, pat) ==
    LET J == {j \in i..Len(s) : At(s, j, pat)} IN IF J = {} THEN 0 ELSE Least(J)

\* String.prototype.includes
Includes(s, pat) == IndexOf(s, 1, pat) # 0

\* the first index from i on whose character is not in the class, Len(s) + 1
\* if there is none: where a greedy class* stops
RECURSIVE SkipWhile(_, _, _)
SkipWhile(In(_), s, i) ==
    IF i <= Len(s) /\ In(CharAt(s, i)) THEN SkipWhile(In, s, i + 1) ELSE i

IsLower(c) ==
    c \in {"a", "b", "c", "d", "e", "f", "g", "h", "i", "j", "k", "l", "m",
           "n", "o", "p", "q", "r", "s", "t", "u", "v", "w", "x", "y", "z"}
IsDigit(c) == c \in {"0", "1", "2", "3", "4", "5", "6", "7", "8", "9"}
NotBacktick(c) == c # Backtick
NotStar(c)     == c # "*"
NotNewline(c)  == c # "\n"

\* ^ under the m flag
LineStart(s, i) == i = 1 \/ CharAt(s, i - 1) = "\n"
\* where (.*?)(?=\n|$) stops under the m flag
LineEnd(s, i) == SkipWhile(NotNewline, s, i)

\* html.replace(regex, replacement) with the g flag. MatchEnd(s, i) is the index
\* after the regex's match at i, 0 if it has none there; Replacement(s, i, e) is
\* what replaces the text from i to e - 1. No regex of the renderer matches the empty string.
RECURSIVE replace(_, _, _, _)
replace(MatchEnd(_, _), Replacement(_, _, _), s, i) ==
    IF i > Len(s) THEN ""
    ELSE LET e == MatchEnd(s, i) IN
         IF e = 0 THEN CharAt(s, i) \o replace(MatchEnd, Replacement, s, i + 1)
         ELSE Replacement(s, i, e) \o replace(MatchEnd, Replacement, s, e)

\* an escaping that leaves the ampersand alone
EscapeChar_KeepsAmpersand(c) ==
    CASE c = "<" -> "&lt;"
      [] c = ">" -> "&gt;"
      [] OTHER   -> c

\* escapeHtml, lines 307-311: the innerHTML of a text node
EscapeChar(c) ==
    CASE c = "&" -> "&amp;"
      [] c = "<" -> "&lt;"
      [] c = ">" -> "&gt;"
      [] OTHER   -> c

\* an escapeHtml that escapes nothing
escapeHtml_Raw(text) == text

RECURSIVE EscapeFrom(_, _)
EscapeFrom(text, i) ==
    IF i > Len(text) THEN "" ELSE EscapeChar(CharAt(text, i)) \o EscapeFrom(text, i + 1)

escapeHtml(text) == EscapeFrom(text, 1)

\* line 253: /```([a-z]*)\n([\s\S]*?)\n```/g
CodeBlockEnd(s, i) ==
    IF ~At(s, i, Fence) THEN 0
    ELSE LET n == SkipWhile(IsLower, s, i + 3) IN
         IF ~At(s, n, "\n") THEN 0
         ELSE LET c == IndexOf(s, n + 1, ("\n" \o Fence)) IN
              IF c = 0 THEN 0 ELSE c + 4

\* lines 254-255
CodeBlock(s, i, e) ==
    LET n        == SkipWhile(IsLower, s, i + 3)
        language == SubSeq(s, i + 3, n - 1)
        code     == SubSeq(s, n + 1, e - 5)
        lang     == IF language # ""
                    THEN " class=\"language-" \o language \o "\"" ELSE ""
    IN  "<pre><code" \o lang \o ">" \o trim(code) \o "</code></pre>"

\* line 259: /`([^`]+)`/g
InlineCodeEnd(s, i) ==
    IF ~At(s, i, Backtick) THEN 0
    ELSE LET j == SkipWhile(NotBacktick, s, i + 1) IN
         IF j > i + 1 /\ j <= Len(s) THEN j + 1 ELSE 0

InlineCode(s, i, e) == "<code>" \o SubSeq(s, i + 1, e - 2) \o "</code>"

\* line 262: /\*\*([^*]+)\*\*/g
BoldEnd(s, i) ==
    IF ~At(s, i, "**") THEN 0
    ELSE LET j == SkipWhile(NotStar, s, i + 2) IN
         IF j > i + 2 /\ At(s, j, "**") THEN j + 2 ELSE 0

Bold(s, i, e) == "<strong>" \o SubSeq(s, i + 2, e - 3) \o "</strong>"

\* line 265: /\*([^*]+)\*/g
ItalicEnd(s, i) ==
    IF ~At(s, i, "*") THEN 0
    ELSE LET j == SkipWhile(NotStar, s, i + 1) IN
         IF j > i + 1 /\ j <= Len(s) THEN j + 1 ELSE 0

Italic(s, i, e) == "<em>" \o SubSeq(s, i + 1, e - 2) \o "</em>"

\* line 268: /^\s*[-*+]\s+(.*?)(?=\n|$)/gm; \s also matches the newline
BulletText(s, i) ==
    LET k == SkipWhile(IsSpace, s, i) IN
    IF ~LineStart(s, i) \/ k > Len(s) THEN 0
    ELSE IF CharAt(s, k) \notin {"-", "*", "+"} THEN 0
    ELSE LET m == SkipWhile(IsSpace, s, k + 1) IN IF m = k + 1 THEN 0 ELSE m

BulletEnd(s, i) ==
    IF BulletText(s, i) = 0 THEN 0 ELSE LineEnd(s, BulletText(s, i))

Bullet(s, i, e) == "<li>" \o SubSeq(s, BulletText(s, i), e - 1) \o "</li>"

\* line 269: /(<li>.*?<\/li>)\n(<li>)/g, replaced by '$1$2'
ItemPairEnd(s, i) ==
    IF ~At(s, i, "<li>") THEN 0
    ELSE LET j == IndexOf(s, i + 4, "</li>\n<li>") IN
         IF j = 0 \/ LineEnd(s, i + 4) < j THEN 0 ELSE j + 10

ItemPair(s, i, e) == SubSeq(s, i, e - 6) \o "<li>"

\* line 270: /(^|[^<])<li>/g, without the m flag
ItemOpenEnd(s, i) ==
    IF i = 1 /\ At(s, 1, "<li>") THEN 5
    ELSE IF CharAt(s, i) # "<" /\ At(s, i + 1, "<li>") THEN i + 5
    ELSE 0

UlOpen(s, i, e) == SubSeq(s, i, e - 5) \o "<ul><li>"

\* (?![<\s]*<li>) fails at q
ItemAhead(s, q) ==
    \E k \in q..Len(s) :
        /\ At(s, k, "<li>")
        /\ \A x \in q..(k - 1) : CharAt(s, x) = "<" \/ IsSpace(CharAt(s, x))

\* line 271: /<\/li>(\n|$)(?![<\s]*<li>)/g, without the m flag
ItemCloseEnd(s, i) ==
    IF ~At(s, i, "</li>") THEN 0
    ELSE IF At(s, i + 5, "\n")
    THEN IF ItemAhead(s, i + 6) THEN 0 ELSE i + 6
    ELSE IF i + 5 = Len(s) + 1 THEN i + 5
    ELSE 0

UlClose(s, i, e) == "</li></ul>"

\* line 274: /^\s*(\d+)\.\s+(.*?)(?=\n|$)/gm
NumberText(s, i) ==
    LET k == SkipWhile(IsSpace, s, i)
        d == SkipWhile(IsDigit, s, k)
        m == SkipWhile(IsSpace, s, d + 1)
    IN  IF LineStart(s, i) /\ d > k /\ At(s, d, ".") /\ m > d + 1 THEN m ELSE 0

NumberEnd(s, i) ==
    IF NumberText(s, i) = 0 THEN 0 ELSE LineEnd(s, NumberText(s, i))

Number(s, i, e) == "<li>" \o SubSeq(s, NumberText(s, i), e - 1) \o "</li>"

\* line 275: /(?<!\n)<li>.*?<\/li>\n<li>/g, replaced by '<li>$&'
FirstPairEnd(s, i) ==
    IF i > 1 /\ CharAt(s, i - 1) = "\n" THEN 0 ELSE ItemPairEnd(s, i)

FirstPair(s, i, e) == "<li>" \o SubSeq(s, i, e - 1)

\* line 276
OlOpen(s, i, e) == SubSeq(s, i, e - 5) \o "<ol><li>"

\* line 277
OlClose(s, i, e) == "</li></ol>"

\* lines 280-282: /^#\s+(.*?)$/gm and its ## and ### forms
HeadingText(marks, s, i) ==
    LET m == SkipWhile(IsSpace, s, i + Len(marks)) IN
    IF LineStart(s, i) /\ At(s, i, marks) /\ m > i + Len(marks) THEN m ELSE 0

H3End(s, i) == IF HeadingText("###", s, i) = 0 THEN 0 ELSE LineEnd(s, HeadingText("###", s, i))
H2End(s, i) == IF HeadingText("##", s, i) = 0 THEN 0 ELSE LineEnd(s, HeadingText("##", s, i))
H1End(s, i) == IF HeadingText("#", s, i) = 0 THEN 0 ELSE LineEnd(s, HeadingText("#", s, i))

H3(s, i, e) == "<h3>" \o SubSeq(s, HeadingText("###", s, i), e - 1) \o "</h3>"
H2(s, i, e) == "<h2>" \o SubSeq(s, HeadingText("##", s, i), e - 1) \o "</h2>"
H1(s, i, e) == "<h1>" \o SubSeq(s, HeadingText("#", s, i), e - 1) \o "</h1>"

\* line 285: /\n\n([\s\S]+?)(?=\n\n|$)/g, without the m flag
ParagraphEnd(s, i) ==
    IF ~At(s, i, "\n\n") \/ i + 2 > Len(s) THEN 0
    ELSE LET e == IndexOf(s, i + 3, "\n\n") IN IF e = 0 THEN Len(s) + 1 ELSE e

\* lines 286-297
Paragraph(s, i, e) ==
    LET content == SubSeq(s, i + 2, e - 1) IN
    IF \/ At(trim(content), 1, "<")
       \/ Includes(content, "</")
       \/ Includes(content, "<li>")
       \/ Includes(content, "<code>")
    THEN "\n\n" \o content
    ELSE "\n\n<p>" \o content \o "</p>"

\* (?:h[1-6]|ul|ol|pre|div|blockquote)
BlockNames ==
    {"h1", "h2", "h3", "h4", "h5", "h6", "ul", "ol", "pre", "div", "blockquote"}

\* line 299: /<p>(<(?:...).*?<\/(?:...)>)<\/p>/g, replaced by '$1'
WrappedBlockEnd(s, i) ==
    LET Opens  == {n \in BlockNames : At(s, i, "<p><" \o n)}
        Closes == {j \in (i + 4)..Len(s) :
                      /\ \E n \in Opens : j >= i + 4 + Len(n)
                      /\ \E n \in BlockNames : At(s, j, "</" \o n \o "></p>")
                      /\ LineEnd(s, i) >= j}
        j      == Least(Closes)
        n      == CHOOSE n \in BlockNames : At(s, j, "</" \o n \o "></p>")
    IN  IF Opens = {} \/ Closes = {} THEN 0 ELSE j + Len(n) + 7

WrappedBlock(s, i, e) == SubSeq(s, i + 3, e - 5)

\* line 302: /\n/g
NewlineEnd(s, i) == IF CharAt(s, i) = "\n" THEN i + 1 ELSE 0

\* a replacement that keeps the newline
Break_KeepsNewline(s, i, e) == "\n"

Break(s, i, e) == "<br>"

\* lines 252-256: code blocks
CodeBlocks(html) == replace(CodeBlockEnd, CodeBlock, html, 1)

\* lines 258-259: inline code
InlineCodes(html) == replace(InlineCodeEnd, InlineCode, html, 1)

\* lines 261-262: bold text
Bolds(html) == replace(BoldEnd, Bold, html, 1)

\* lines 264-265: italic text
Italics(html) == replace(ItalicEnd, Italic, html, 1)

\* lines 267-271: unordered lists, four replacements from the inside out
UnorderedLists(html) ==
    replace(ItemCloseEnd, UlClose,
        replace(ItemOpenEnd, UlOpen,
            replace(ItemPairEnd, ItemPair,
                replace(BulletEnd, Bullet, html, 1), 1), 1), 1)

\* lines 273-277: ordered lists, four replacements from the inside out
OrderedLists(html) ==
    replace(ItemCloseEnd, OlClose,
        replace(ItemOpenEnd, OlOpen,
            replace(FirstPairEnd, FirstPair,
                replace(NumberEnd, Number, html, 1), 1), 1), 1)

\* lines 279-282: headings, ### first
Headings(html) ==
    replace(H1End, H1, replace(H2End, H2, replace(H3End, H3, html, 1), 1), 1)

\* lines 284-296: paragraphs
Paragraphs(html) == replace(ParagraphEnd, Paragraph, html, 1)

\* lines 298-299: no paragraph tags around block elements
Unwrapped(html) == replace(WrappedBlockEnd, WrappedBlock, html, 1)

\* lines 301-302: line breaks
LineBreaks(html) == replace(NewlineEnd, Break, html, 1)

\* advancedMarkdownToHtml, lines 246-305: the steps in the order of the code,
\* the first one innermost
advancedMarkdownToHtml(text) ==
    IF text = "" THEN ""
    ELSE trim(LineBreaks(Unwrapped(Paragraphs(Headings(OrderedLists(
             UnorderedLists(Italics(Bolds(InlineCodes(CodeBlocks(
                 escapeHtml(text))))))))))))

\* ---------------------------------------------------------------- response texts
\* the characters of the enumerated texts: a letter, white space, the HTML
\* metacharacters and the characters of the markdown tokens
RawChars == {"a", " ", "\n", "<", ">", "&", "*", Backtick, "-", "#", "1", "."}

\* every text of at most n of these characters
RECURSIVE RawTexts(_)
RawTexts(n) ==
    IF n = 0 THEN {""}
    ELSE LET shorter == RawTexts(n - 1)
         IN  shorter \cup {t \o c : t \in shorter, c \in RawChars}

\* n consecutive lines of an unordered and of an ordered list
RECURSIVE BulletRun(_)
BulletRun(n) == IF n = 1 THEN "- a" ELSE BulletRun(n - 1) \o "\n- a"
RECURSIVE NumberRun(_)
NumberRun(n) == IF n = 1 THEN "1. a" ELSE NumberRun(n - 1) \o "\n1. a"

\* longer texts: lists alone and between other lines, code fences closed and
\* not, paragraphs, headings, emphasis, text that is already escaped
Examples ==
    {BulletRun(n) : n \in 1..MaxItems} \cup {NumberRun(n) : n \in 1..MaxItems}
    \cup {"a\n" \o BulletRun(n) \o "\na" : n \in 1..MaxItems}
    \cup {"a\n" \o NumberRun(n) \o "\na" : n \in 1..MaxItems}
    \cup {Fence \o "js\na\n" \o Fence, Fence \o "\n a \n" \o Fence,
          Fence \o "\na", Fence \o "a", Fence \o "a" \o Backtick,
          Fence \o "a" \o Fence, Fence \o "js\na" \o Fence,
          Fence \o "\na\n" \o Backtick \o Backtick}
    \cup {"a\n\na", "a\n\na\n\na", "a\n\n# a", "# a\n## a\n### a",
          "**a** *a* " \o Backtick \o "a" \o Backtick, "x=1"}
    \cup {"&lt;", "&gt;", "&amp;", "a &lt; a", "&lt;a&gt;", "a&amp;a"}

Markdowns == RawTexts(MaxRawLen) \cup Examples

\* the values that the content fields of the model's bodies take: each field
\* absent, empty or filled, practice_questions also as an array
Solutions         == {Absent, JString(""), JString("x=1")}
Explanations      == {Absent, JString(""), JString("isolate x")}
PracticeQuestions == {Absent, JString(""), JString("solve 2x=4"), JArray(<<>>),
                      JArray(<<"solve 2x=4", "solve 3x=9">>)}
Responses         == {Absent, JString(""), JString("hello")}

\* the texts of these values
ResponseTexts ==
    {ToText(v) : v \in Solutions \cup Explanations \cup PracticeQuestions \cup Responses}

\* advancedMarkdownToHtml on these texts, as a function: each is rendered once
Rendering == [text \in ResponseTexts |-> advancedMarkdownToHtml(text)]

\* advancedMarkdownToHtml(text), read from that function where it holds the text
Render(text) ==
    IF text \in ResponseTexts THEN Rendering[text] ELSE advancedMarkdownToHtml(text)

\* ---------------------------------------------------------------- state
VARIABLES
    messageInput,       \* messageInput.value
    selectedImage,      \* the global selectedImage: a file or null
    imageInput,         \* imageInput.value: "" or the chosen file's name
    submitDisabled,     \* submitBtn.disabled
    loadingHidden,      \* loadingIndicator has class hidden
    previewHidden,      \* imagePreviewContainer has class hidden
    previewSrc,         \* imagePreview.src
    chatHistory,        \* the messages appended to .chat-history, in order
    toasts,             \* the error toasts the last task put on screen
    previewReaders,     \* the files of handleImageSelection's pending FileReaders
    pending,            \* the submissions in progress: their FileReader or fetch
    accepted,           \* history: how many submissions handleSubmit has accepted
    validated,          \* history: validateInput has run at least once
    idle,               \* history: no user event since the last accepted submission
    last                \* history: what the step into this state completed

vars == <<messageInput, selectedImage, imageInput, submitDisabled, loadingHidden,
          previewHidden, previewSrc, chatHistory, toasts, previewReaders, pending,
          accepted, validated, idle, last>>

\* The DOM fields as one record, so that the script's functions compose in the
\* order the code calls them.
\* A toast lives for three seconds (showError's timer) and nothing reads it: the
\* model lets each task start with the toasts of the earlier tasks gone.
Dom ==
    [messageInput |-> messageInput, selectedImage |-> selectedImage,
     imageInput |-> imageInput, submitDisabled |-> submitDisabled,
     loadingHidden |-> loadingHidden, previewHidden |-> previewHidden,
     previewSrc |-> previewSrc, chatHistory |-> chatHistory, toasts |-> <<>>,
     validated |-> validated]

\* Writes the fields back.
Commit(d) ==
    /\ messageInput'   = d.messageInput
    /\ selectedImage'  = d.selectedImage
    /\ imageInput'     = d.imageInput
    /\ submitDisabled' = d.submitDisabled
    /\ loadingHidden'  = d.loadingHidden
    /\ previewHidden'  = d.previewHidden
    /\ previewSrc'     = d.previewSrc
    /\ chatHistory'    = d.chatHistory
    /\ toasts'         = d.toasts
    /\ validated'      = d.validated

\* ---------------------------------------------------------------- script.js
\* a validateInput that looks at the text only
validateInput_TextOnly(d) ==
    [d EXCEPT !.submitDisabled = ~(TrimEnd(TrimStart(d.messageInput)) # <<>>),
              !.validated = TRUE]

validateInput(d) ==
    [d EXCEPT !.submitDisabled = ~(trim(d.messageInput) # <<>> \/ d.selectedImage # null),
              !.validated = TRUE]

showLoading(d) ==
    [d EXCEPT !.loadingHidden = FALSE, !.submitDisabled = TRUE]

hideLoading(d) ==
    validateInput([d EXCEPT !.loadingHidden = TRUE])

showError(d, message) ==
    [d EXCEPT !.toasts = Append(d.toasts, message)]

removeImage(d) ==
    validateInput([d EXCEPT !.selectedImage = null, !.imageInput = "",
                            !.previewHidden = TRUE])

UserMessage(message) ==
    [role |-> "user", text |-> message, sections |-> <<>>]

addUserMessage(d, message) ==
    IF trim(message) = <<>> THEN d
    ELSE [d EXCEPT !.chatHistory = Append(d.chatHistory, UserMessage(message))]

BotMessage(sections) ==
    [role |-> "assistant", text |-> <<>>, sections |-> sections]

\* one section of an assistant message: its name and its message-content HTML.
\* An empty array passes `if (!text)` and is rendered from its string form, the
\* empty string, to the same empty HTML.
Section(name, value) ==
    [name |-> name, html |-> Render(ToText(value))]

\* lines 220-222: the image, its URL put into the markup as it is
ImageSection(image_url) ==
    [name |-> "image",
     html |-> "<img src=\"" \o image_url \o "\" alt=\"Response Image\" class=\"message-image\">"]

\* an addBotMessage that adds the response to the sections instead of
\* showing it only when there are none
BotSections_ResponseToo(data) ==
    (IF TruthyValue(data.solution)
     THEN <<Section("solution", data.solution)>> ELSE <<>>)
    \o (IF TruthyValue(data.explanation)
        THEN <<Section("explanation", data.explanation)>> ELSE <<>>)
    \o (IF TruthyValue(data.practice_questions)
        THEN <<Section("practice_questions", data.practice_questions)>> ELSE <<>>)
    \o (IF TruthyValue(data.response)
        THEN <<Section("response", data.response)>> ELSE <<>>)

\* the sections addBotMessage puts into the message's innerHTML, in order
BotSections(data) ==
    LET three == (IF TruthyValue(data.solution)
                  THEN <<Section("solution", data.solution)>> ELSE <<>>)
                 \o (IF TruthyValue(data.explanation)
                     THEN <<Section("explanation", data.explanation)>> ELSE <<>>)
                 \o (IF TruthyValue(data.practice_questions)
                     THEN <<Section("practice_questions", data.practice_questions)>>
                     ELSE <<>>)
        body  == IF ~TruthyValue(data.solution) /\ ~TruthyValue(data.explanation)
                    /\ ~TruthyValue(data.practice_questions) /\ TruthyValue(data.response)
                 THEN <<Section("response", data.response)>> ELSE three
    IN  body \o (IF Truthy(data.image_url) THEN <<ImageSection(data.image_url)>> ELSE <<>>)

\* an addBotMessage that overwrites the last message of the transcript
addBotMessage_ReplacesLast(d, data) ==
    [d EXCEPT !.chatHistory[Len(d.chatHistory)] = BotMessage(BotSections(data))]

addBotMessage(d, data) ==
    [d EXCEPT !.chatHistory = Append(d.chatHistory, BotMessage(BotSections(data)))]

\* a handleSubmit tail that leaves the text in the field
clearAfterSending_KeepsText(d) ==
    validateInput(IF d.selectedImage # null THEN removeImage(d) ELSE d)

\* handleSubmit, lines 107-117: what runs after the try block
clearAfterSending(d) ==
    LET d1 == [d EXCEPT !.messageInput = <<>>]
        d2 == IF d1.selectedImage # null THEN removeImage(d1) ELSE d1
    IN  validateInput(d2)

\* a catch block that forgets hideLoading
apiCatch_NoHide(d, message) ==
    LET d2 == showError(d, OrElse(message, "Failed to communicate with the server."))
        d3 == [d2 EXCEPT !.messageInput = <<>>]
        d4 == IF d3.selectedImage # null THEN removeImage(d3) ELSE d3
    IN  validateInput(d4)

\* makeApiCall, lines 146-154: the catch block
apiCatch(d, message) ==
    LET d1 == hideLoading(d)
        d2 == showError(d1, OrElse(message, "Failed to communicate with the server."))
        d3 == [d2 EXCEPT !.messageInput = <<>>]
        d4 == IF d3.selectedImage # null THEN removeImage(d3) ELSE d3
    IN  validateInput(d4)

\* the response bodies the server may send, once parsed
Body(error, details, solution) ==
    [isNull |-> FALSE, error |-> error, details |-> details,
     solution |-> JValue(solution), explanation |-> Absent,
     practice_questions |-> Absent, response |-> Absent, image_url |-> undefined]

NullBody == [Body(undefined, undefined, undefined) EXCEPT !.isNull = TRUE]

Bodies ==
    {NullBody, Body(undefined, undefined, "x=1"), Body("", undefined, "x=1")} \cup
    {Body(e, t, undefined) : e \in {undefined, "Bad input"},
                             t \in {undefined, "missing field"}}

StatusText(status) == IF status = 200 THEN "OK" ELSE "BAD REQUEST"

\* a makeApiCall whose error branch lacks its return
apiParsed_NoReturn(d, status, data) ==
    IF status # 200
    THEN IF data.isNull
         THEN apiCatch(d, "Cannot read properties of null (reading 'details')")
         ELSE apiCatch(d, OrElse(data.details, OrElse(data.error,
                  "Server error: " \o ToString(status) \o " " \o StatusText(status))))
    ELSE LET d1 == hideLoading(d) IN
         IF data.isNull
         THEN apiCatch(d1, "Cannot read properties of null (reading 'error')")
         ELSE IF Truthy(data.error)
         THEN addBotMessage(showError(d1, data.error \o (IF Truthy(data.details)
                                            THEN ": " \o data.details ELSE "")), data)
         ELSE addBotMessage(d1, data)

\* makeApiCall, lines 130-145, from the parsed body on
apiParsed(d, status, data) ==
    IF status # 200
    THEN IF data.isNull
         THEN apiCatch(d, "Cannot read properties of null (reading 'details')")
         ELSE apiCatch(d, OrElse(data.details, OrElse(data.error,
                  "Server error: " \o ToString(status) \o " " \o StatusText(status))))
    ELSE LET d1 == hideLoading(d) IN
         IF data.isNull
         THEN apiCatch(d1, "Cannot read properties of null (reading 'error')")
         ELSE IF Truthy(data.error)
         THEN showError(d1, data.error \o (IF Truthy(data.details)
                                            THEN ": " \o data.details ELSE ""))
         ELSE addBotMessage(d1, data)

\* ---------------------------------------------------------------- submissions
\* One record per submission in progress: the requestData object of
\* handleSubmit, the file its FileReader reads and where its chain stands.
\*   stage   "reading"  the FileReader of handleSubmit is pending
\*           "fetching" fetch('/api/solve') is pending
\*           "parsing"  response.json() is pending
\*   awaited handleSubmit itself is suspended at `await makeApiCall` (line 98)
\*   latest  history: no submission has been accepted after this one
\* The records form a bag: two submissions may hold equal data.
NewSub(stage, awaited, text_problem, file) ==
    [stage |-> stage, awaited |-> awaited,
     requestData |-> [text_problem |-> text_problem, image_data |-> null],
     file |-> file, status |-> 0, latest |-> TRUE]

\* history: the bag with every submission marked as no longer the latest
Older(bag) ==
    LET Count(sub) == IF sub \in DOMAIN bag THEN bag[sub] ELSE 0
    IN  [sub \in {[r EXCEPT !.latest = FALSE] : r \in BagToSet(bag)} |->
            Count(sub) + Count([sub EXCEPT !.latest = TRUE])]

Subs == BagToSet(pending)

Start(sub)      == Older(pending) (+) SetToBag({sub})
Finish(sub)     == pending (-) SetToBag({sub})
Move(sub, next) == (pending (-) SetToBag({sub})) (+) SetToBag({next})

\* the submissions whose POST /api/solve is issued and not yet handled
InFlight == {sub \in Subs : sub.stage \in {"fetching", "parsing"}}
Requests == BagCardinality([sub \in InFlight |-> pending[sub]])

\* history: the step into this state completed no submission, or it completed
\* one: by a failed read, a rejected fetch, an unparseable or a parsed body
Completed(event, status, data) == [event |-> event, status |-> status, data |-> data]
NoResponse == Completed("none", 0, NullBody)

Init ==
    /\ messageInput = <<>>
    /\ selectedImage = null
    /\ imageInput = ""
    \* script.js never sets the button's state at load: it is whatever the
    \* markup says, and the markup may or may not carry the disabled attribute
    /\ submitDisabled \in BOOLEAN
    /\ loadingHidden = TRUE
    /\ previewHidden = TRUE
    /\ previewSrc = ""
    /\ chatHistory = <<[role |-> "welcome", text |-> <<>>, sections |-> <<>>]>>
    /\ toasts = <<>>
    /\ previewReaders = EmptyBag
    /\ pending = EmptyBag
    /\ accepted = 0
    /\ validated = FALSE
    /\ idle = FALSE
    /\ last = NoResponse

\* ---------------------------------------------------------------- user events
\* the input event of the message field: its listener is validateInput
onInput(v) ==
    /\ v # messageInput
    /\ Commit(validateInput([Dom EXCEPT !.messageInput = v]))
    /\ idle' = FALSE
    /\ last' = NoResponse
    /\ UNCHANGED <<previewReaders, pending, accepted>>

\* a handleImageSelection that drops the selected image on a rejected file
handleImageSelection_DropsImage(f) ==
    /\ IF ~IsImageType(f)
       THEN /\ Commit(removeImage(showError(Dom, "Please select an image file.")))
            /\ UNCHANGED previewReaders
       ELSE /\ BagCardinality(previewReaders) < MaxReaders
            /\ Commit(validateInput([Dom EXCEPT !.selectedImage = f, !.imageInput = f]))
            /\ previewReaders' = previewReaders (+) SetToBag({f})
    /\ idle' = FALSE
    /\ last' = NoResponse
    /\ UNCHANGED <<pending, accepted>>

\* a handleImageSelection that leaves the rejected file in the file input
handleImageSelection_KeepsValue(f) ==
    /\ IF ~IsImageType(f)
       THEN /\ Commit([showError(Dom, "Please select an image file.")
                          EXCEPT !.imageInput = f])
            /\ UNCHANGED previewReaders
       ELSE /\ BagCardinality(previewReaders) < MaxReaders
            /\ Commit(validateInput([Dom EXCEPT !.selectedImage = f, !.imageInput = f]))
            /\ previewReaders' = previewReaders (+) SetToBag({f})
    /\ idle' = FALSE
    /\ last' = NoResponse
    /\ UNCHANGED <<pending, accepted>>

\* the change event of the file input, the user having picked file f
handleImageSelection(f) ==
    /\ IF ~IsImageType(f)
       THEN /\ Commit([showError(Dom, "Please select an image file.")
                          EXCEPT !.imageInput = ""])
            /\ UNCHANGED previewReaders
       ELSE /\ BagCardinality(previewReaders) < MaxReaders
            /\ Commit(validateInput([Dom EXCEPT !.selectedImage = f, !.imageInput = f]))
            /\ previewReaders' = previewReaders (+) SetToBag({f})
    /\ idle' = FALSE
    /\ last' = NoResponse
    /\ UNCHANGED <<pending, accepted>>

\* the click on the remove button, which sits inside the preview container
onRemoveImage ==
    /\ ~previewHidden
    /\ Commit(removeImage(Dom))
    /\ idle' = FALSE
    /\ last' = NoResponse
    /\ UNCHANGED <<previewReaders, pending, accepted>>

\* the submit event of the form, which the enabled submit button raises.
\* The catch block of lines 101-105 is never entered: makeApiCall catches
\* everything it throws, and readAsDataURL only starts the read.
handleSubmit ==
    /\ ~submitDisabled
    /\ LET userMessage == trim(messageInput) IN
       IF userMessage = <<>> /\ selectedImage = null
       THEN /\ Commit(showError(Dom, "Please enter a message or upload an image."))
            /\ idle' = FALSE
            /\ UNCHANGED <<pending, accepted>>
       ELSE LET d1 == showLoading(addUserMessage(Dom, userMessage))
                text_problem == IF userMessage # <<>> THEN userMessage ELSE nullText
            IN  /\ accepted < MaxSubmits
                /\ IF selectedImage # null
                   THEN /\ Commit(clearAfterSending(d1))
                        /\ pending' = Start(NewSub("reading", FALSE, text_problem,
                                                   selectedImage))
                   ELSE /\ Commit(d1)
                        /\ pending' = Start(NewSub("fetching", TRUE, text_problem, null))
                /\ accepted' = accepted + 1
                /\ idle' = TRUE
    /\ last' = NoResponse
    /\ UNCHANGED previewReaders

\* ---------------------------------------------------------------- completions
\* handleImageSelection's reader.onload
previewOnload(f) ==
    /\ BagIn(f, previewReaders)
    /\ previewReaders' = previewReaders (-) SetToBag({f})
    /\ Commit([Dom EXCEPT !.previewSrc = f, !.previewHidden = FALSE])
    /\ last' = NoResponse
    /\ UNCHANGED <<pending, accepted, idle>>

\* handleImageSelection's reader fails: it has no onerror, nothing runs
previewError(f) ==
    /\ BagIn(f, previewReaders)
    /\ previewReaders' = previewReaders (-) SetToBag({f})
    /\ Commit(Dom)
    /\ last' = NoResponse
    /\ UNCHANGED <<pending, accepted, idle>>

\* an onloadend that takes the image selected when the read ends
readerLoadEnd_ReadsSelection(sub) ==
    /\ sub.stage = "reading"
    /\ pending' = Move(sub, [sub EXCEPT !.stage = "fetching",
                       !.requestData.image_data =
                           IF selectedImage = null THEN null
                           ELSE readAsDataURL(selectedImage)[2]])
    /\ Commit(Dom)
    /\ last' = NoResponse
    /\ UNCHANGED <<previewReaders, accepted, idle>>

\* handleSubmit's reader.onloadend after a successful read: the base64 part of
\* the data URL goes into requestData and makeApiCall issues the fetch
readerLoadEnd(sub) ==
    /\ sub.stage = "reading"
    /\ pending' = Move(sub, [sub EXCEPT !.stage = "fetching",
                       !.requestData.image_data = readAsDataURL(sub.file)[2]])
    /\ Commit(Dom)
    /\ last' = NoResponse
    /\ UNCHANGED <<previewReaders, accepted, idle>>

\* an onloadend that goes on to makeApiCall after a failed read
readerError_Posts(sub) ==
    /\ sub.stage = "reading"
    /\ Commit(hideLoading(showError(Dom, "Failed to read the selected image file.")))
    /\ pending' = Move(sub, [sub EXCEPT !.stage = "fetching"])
    /\ last' = Completed("read_error", 0, NullBody)
    /\ UNCHANGED <<previewReaders, accepted, idle>>

\* a failed read that onerror and onloadend both report
readerError_ReportsTwice(sub) ==
    /\ sub.stage = "reading"
    /\ Commit(apiCatch(hideLoading(showError(Dom, "Failed to read the selected image file.")),
                       "Cannot read properties of null (reading 'split')"))
    /\ pending' = Finish(sub)
    /\ last' = Completed("read_error", 0, NullBody)
    /\ UNCHANGED <<previewReaders, accepted, idle>>

\* handleSubmit's reader fails: onerror runs, then onloadend, whose
\* reader.result is null, so that result.split throws before makeApiCall
readerError(sub) ==
    /\ sub.stage = "reading"
    /\ Commit(hideLoading(showError(Dom, "Failed to read the selected image file.")))
    /\ pending' = Finish(sub)
    /\ last' = Completed("read_error", 0, NullBody)
    /\ UNCHANGED <<previewReaders, accepted, idle>>

\* the end of makeApiCall: handleSubmit resumes after line 98 if it awaited
Settle(sub, d) ==
    /\ Commit(IF sub.awaited THEN clearAfterSending(d) ELSE d)
    /\ pending' = Finish(sub)
    /\ UNCHANGED <<previewReaders, accepted, idle>>

\* fetch rejects: the network failed
fetchRejects(sub) ==
    /\ sub.stage = "fetching"
    /\ Settle(sub, apiCatch(Dom, "Failed to fetch"))
    /\ last' = Completed("network", 0, NullBody)

\* fetch resolves with a response of the given status
fetchResolves(sub, status) ==
    /\ sub.stage = "fetching"
    /\ pending' = Move(sub, [sub EXCEPT !.stage = "parsing", !.status = status])
    /\ Commit(Dom)
    /\ last' = NoResponse
    /\ UNCHANGED <<previewReaders, accepted, idle>>

\* response.json() rejects: the body is not JSON
jsonRejects(sub) ==
    /\ sub.stage = "parsing"
    /\ Settle(sub, apiCatch(Dom, "Unexpected token < in JSON at position 0"))
    /\ last' = Completed("unparseable", sub.status, NullBody)

\* response.json() resolves with the parsed body
jsonResolves(sub, data) ==
    /\ sub.stage = "parsing"
    /\ \E d \in {apiParsed(Dom, sub.status, data)} : Settle(sub, d)
    /\ last' = Completed("parsed", sub.status, data)

Statuses == {200, 400}

Next ==
    \/ \E v \in Texts : onInput(v)
    \/ \E f \in Files : handleImageSelection(f)
    \/ onRemoveImage
    \/ handleSubmit
    \/ \E f \in ImageFiles : previewOnload(f)
    \/ \E f \in ImageFiles : previewError(f)
    \/ \E sub \in Subs : readerLoadEnd(sub)
    \/ \E sub \in Subs : readerError(sub)
    \/ \E sub \in Subs : fetchRejects(sub)
    \/ \E sub \in Subs, status \in Statuses : fetchResolves(sub, status)
    \/ \E sub \in Subs : jsonRejects(sub)
    \/ \E sub \in Subs, data \in Bodies : jsonResolves(sub, data)

Spec == Init /\ [][Next]_vars

\* ---------------------------------------------------------------- one answer
\* The handling of one 200 response, for every body of a larger set of bodies:
\* the step that applies addBotMessage and, through it, the renderer.

\* a body without an error: its content fields and its image
Answer(solution, explanation, practice_questions, response, image_url) ==
    [Body(undefined, undefined, undefined) EXCEPT
        !.solution = solution, !.explanation = explanation,
        !.practice_questions = practice_questions, !.response = response,
        !.image_url = image_url]

\* every combination of the content fields, with or without an image
Answers ==
    {Answer(s, e, q, r, u) :
        s \in Solutions, e \in Explanations, q \in PracticeQuestions,
        r \in Responses, u \in {undefined, "plot.png"}}

\* a body whose solution is one of these texts
MarkdownAnswers == {Answer(JString(t), Absent, Absent, Absent, undefined) : t \in Markdowns}

\* The page after the user has typed x and submitted it and fetch has resolved
\* with status 200: response.json() is pending.
AnswerInit ==
    /\ messageInput = <<"x">>
    /\ selectedImage = null
    /\ imageInput = ""
    /\ submitDisabled = TRUE
    /\ loadingHidden = FALSE
    /\ previewHidden = TRUE
    /\ previewSrc = ""
    /\ chatHistory = <<[role |-> "welcome", text |-> <<>>, sections |-> <<>>],
                       UserMessage(<<"x">>)>>
    /\ toasts = <<>>
    /\ previewReaders = EmptyBag
    /\ pending = SetToBag({[NewSub("parsing", TRUE, <<"x">>, null) EXCEPT !.status = 200]})
    /\ accepted = 1
    /\ validated = TRUE
    /\ idle = TRUE
    /\ last = NoResponse

AnswerNext ==
    \E sub \in Subs : \E data \in Answers \cup MarkdownAnswers : jsonResolves(sub, data)

AnswerSpec == AnswerInit /\ [][AnswerNext]_vars

\* ---------------------------------------------------------------- properties
\* the text is empty once trimmed: it holds nothing but white space
Blank(s) == \A i \in DOMAIN s : s[i] = " "

\* nothing to submit: no text and no image
InputEmpty == Blank(messageInput) /\ selectedImage = null

Assistants(h) == Cardinality({i \in DOMAIN h : h[i].role = "assistant"})
UserMessages(h) == Cardinality({i \in DOMAIN h : h[i].role = "user"})

\* the step completed a submission with a failure
Failed(l) ==
    \/ l.event \in {"read_error", "network", "unparseable"}
    \/ l.event = "parsed" /\ (l.status # 200 \/ l.data.isNull \/ Truthy(l.data.error))

\* C1: at most one POST /api/solve request is outstanding at any time.
C1_OneOutstandingRequest == Requests <= 1

\* C2: while an accepted submission has not completed, the submit button is
\* disabled.
C2_DisabledWhileSubmitting == pending # EmptyBag => submitDisabled

\* C3: handleSubmit with blank text and no image shows the validation toast and
\* changes nothing else: no request, no transcript entry, no loading indicator,
\* the same text, image and button state.
C3_EmptySubmitRejected ==
    [][(handleSubmit /\ InputEmpty) =>
          /\ toasts' = <<"Please enter a message or upload an image.">>
          /\ UNCHANGED <<messageInput, selectedImage, imageInput, submitDisabled,
                         loadingHidden, previewHidden, previewSrc, chatHistory,
                         pending, accepted>>]_vars

C3_Witness ==
    /\ toasts = <<"Please enter a message or upload an image.">>
    /\ InputEmpty /\ ~submitDisabled /\ loadingHidden
    /\ accepted = 0 /\ Len(chatHistory) = 1

\* C4: every accepted submission appends exactly one user message in the
\* handleSubmit step itself.
C4_AcceptAppendsUserMessage ==
    [][accepted' = accepted + 1 =>
          /\ Len(chatHistory') = Len(chatHistory) + 1
          /\ chatHistory'[Len(chatHistory')].role = "user"]_vars

\* C5 as stated: a step appends an assistant message only if it handled a 200
\* response with a parsed body that carries no error field.
C5_AssistantOnlyWithoutErrorField ==
    [][Assistants(chatHistory') # Assistants(chatHistory) =>
          /\ last'.event = "parsed" /\ last'.status = 200
          /\ ~last'.data.isNull /\ last'.data.error = undefined]_vars

\* C5 as amended: a step appends an assistant message only if it handled a 200
\* response with a parsed body whose error field is absent or falsy; a step that
\* completes a submission with a failure appends none.
C5_AssistantOnlyOnSuccess ==
    [][/\ Assistants(chatHistory') # Assistants(chatHistory) =>
             /\ Assistants(chatHistory') = Assistants(chatHistory) + 1
             /\ last'.event = "parsed" /\ last'.status = 200
             /\ ~last'.data.isNull /\ ~Truthy(last'.data.error)
       /\ Failed(last') => chatHistory' = chatHistory]_vars

C5_Witness ==
    /\ last.event = "parsed" /\ last.status = 200 /\ ~Truthy(last.data.error)
    /\ chatHistory[Len(chatHistory)].role = "assistant"

\* C6: a non-2xx response whose body has an error and a details field shows the
\* toast error + ": " + details and appends no assistant message.
C6_ErrorAndDetailsConcatenated ==
    [][(/\ last'.event = "parsed" /\ last'.status # 200 /\ ~last'.data.isNull
        /\ Truthy(last'.data.error) /\ Truthy(last'.data.details)) =>
          /\ toasts' = <<last'.data.error \o ": " \o last'.data.details>>
          /\ Assistants(chatHistory') = Assistants(chatHistory)]_vars

\* C7: a failed read of the attached image shows the read error, hides the
\* loading indicator, re-evaluates the submit button and ends the submission
\* without a request: the reader is gone and no request has been added.
C7_ReadFailureEndsSubmission ==
    [][last'.event = "read_error" =>
          /\ toasts' = <<"Failed to read the selected image file.">>
          /\ loadingHidden'
          /\ submitDisabled' <=> InputEmpty'
          /\ Requests' = Requests
          /\ BagCardinality(pending') = BagCardinality(pending) - 1
          /\ chatHistory' = chatHistory]_vars

C7_Witness ==
    /\ last.event = "read_error"
    /\ toasts = <<"Failed to read the selected image file.">>
    /\ loadingHidden /\ pending = EmptyBag

\* C8: every failure that completes a submission (failed read, rejected fetch,
\* unparseable body, non-2xx status, null body, error field) leaves, in the very
\* step that handles it, the loading indicator hidden and the submit button
\* enabled exactly when there is something to submit.
C8_RecoversAfterFailure ==
    [][Failed(last') => loadingHidden' /\ (submitDisabled' <=> InputEmpty')]_vars

C8_Witness ==
    /\ Failed(last) /\ last.event = "parsed"
    /\ loadingHidden /\ submitDisabled /\ InputEmpty

\* C9: once the latest accepted submission is fully handled and the user has
\* done nothing since it was accepted, the text field is empty, no image is
\* selected and the file input is empty.
C9_ClearedAfterSubmission ==
    (idle /\ \A sub \in Subs : ~sub.latest) =>
        messageInput = <<>> /\ selectedImage = null /\ imageInput = ""

C9_Witness ==
    /\ idle /\ pending = EmptyBag /\ last.event = "parsed" /\ ~Failed(last)
    /\ messageInput = <<>> /\ selectedImage = null
    /\ UserMessages(chatHistory) = 1

\* C10: with the loading indicator hidden and validateInput having run, the
\* submit button is disabled exactly when there is nothing to submit.
C10_ButtonFollowsInput ==
    (loadingHidden /\ validated) => (submitDisabled <=> InputEmpty)

C10_Witness ==
    /\ loadingHidden /\ validated /\ ~submitDisabled
    /\ Blank(messageInput) /\ messageInput # <<>> /\ selectedImage # null

\* C11: selecting a file that is not an image changes neither the selected
\* image, the text, the submit button, the preview nor the transcript, whether
\* or not an image was selected before.
C11_NonImageChangesNothing ==
    [][(\E f \in OtherFiles : handleImageSelection(f)) =>
          UNCHANGED <<messageInput, selectedImage, submitDisabled, previewHidden,
                      previewSrc, chatHistory, loadingHidden>>]_vars

C11_Witness ==
    /\ toasts = <<"Please select an image file.">>
    /\ selectedImage # null /\ ~previewHidden /\ ~submitDisabled

\* C12 as stated: after a file that is not an image is selected, no image is
\* selected, the validation toast is shown and the file input is empty.
C12_NonImageLeavesNoImage ==
    [][(\E f \in OtherFiles : handleImageSelection(f)) =>
          /\ selectedImage' = null
          /\ toasts' = <<"Please select an image file.">>
          /\ imageInput' = ""]_vars

\* C12 as amended: after a file that is not an image is selected, the
\* validation toast is shown, the file input is empty and the selected image is
\* the one selected before: none if none was.
C12_NonImageKeepsSelection ==
    [][(\E f \in OtherFiles : handleImageSelection(f)) =>
          /\ toasts' = <<"Please select an image file.">>
          /\ imageInput' = ""
          /\ selectedImage' = selectedImage
          /\ selectedImage = null => selectedImage' = null]_vars

C12_Witness ==
    /\ toasts = <<"Please select an image file.">>
    /\ selectedImage = null /\ imageInput = "" /\ previewHidden

\* ---------------------------------------------------------------- answers
\* the step into this state handled a 200 response whose body carries no error
Answered(l) == l.event = "parsed" /\ ~Failed(l)

LastMessage(h) == h[Len(h)]
SectionNames(m) == {m.sections[i].name : i \in DOMAIN m.sections}

ContentFields == {"solution", "explanation", "practice_questions"}

\* the field is in the body; it is in the body and not empty
Present(v)  == v.type # "undefined"
NonEmpty(v) == (v.type = "string" /\ v.text # "") \/ (v.type = "array" /\ v.items # <<>>)

\* C13 as stated: a successful response appends exactly one assistant message
\* and no toast; the message has a section for exactly the content fields that
\* are present and not empty, each rendered by the renderer, and shows the
\* response field only if none of the three is present.
C13_SectionsForNonEmptyFields ==
    [][Answered(last') =>
          LET m == LastMessage(chatHistory') IN
          /\ Len(chatHistory') = Len(chatHistory) + 1
          /\ m.role = "assistant"
          /\ toasts' = <<>>
          /\ SectionNames(m) \cap ContentFields =
                 {f \in ContentFields : NonEmpty(last'.data[f])}
          /\ "response" \in SectionNames(m) =>
                 \A f \in ContentFields : ~Present(last'.data[f])
          /\ \A i \in DOMAIN m.sections :
                 m.sections[i].name \in ContentFields \cup {"response"} =>
                     m.sections[i].html =
                         advancedMarkdownToHtml(ToText(last'.data[m.sections[i].name]))]_vars

\* C13 as amended: a successful response appends exactly one assistant message
\* and no toast; the message has a section for exactly the content fields whose
\* value is truthy (a string that is not empty, or an array, empty or not),
\* each rendered by the renderer from the value's string form; it shows the
\* response field exactly when that is truthy and none of the three is; a body
\* with no recognized field gives a message without sections.
C13_SectionsForTruthyFields ==
    [][Answered(last') =>
          LET m == LastMessage(chatHistory') IN
          /\ Len(chatHistory') = Len(chatHistory) + 1
          /\ SubSeq(chatHistory', 1, Len(chatHistory)) = chatHistory
          /\ m.role = "assistant"
          /\ toasts' = <<>>
          /\ SectionNames(m) \cap ContentFields =
                 {f \in ContentFields : TruthyValue(last'.data[f])}
          /\ "response" \in SectionNames(m) <=>
                 /\ TruthyValue(last'.data.response)
                 /\ \A f \in ContentFields : ~TruthyValue(last'.data[f])
          /\ \A i \in DOMAIN m.sections :
                 m.sections[i].name \in ContentFields \cup {"response"} =>
                     m.sections[i].html =
                         advancedMarkdownToHtml(ToText(last'.data[m.sections[i].name]))
          /\ (/\ \A f \in ContentFields \cup {"response"} : ~Present(last'.data[f])
              /\ last'.data.image_url = undefined) => m.sections = <<>>]_vars

C13_Witness ==
    /\ Answered(last)
    /\ last.data.solution = JString("x=1")
    /\ last.data.practice_questions = JArray(<<>>)
    /\ SectionNames(LastMessage(chatHistory)) = {"solution", "practice_questions"}
    /\ toasts = <<>>

\* C14: every step leaves the transcript a prefix of the transcript after it:
\* no message is removed, reordered or modified.
C14_TranscriptAppendOnly ==
    [][/\ Len(chatHistory') >= Len(chatHistory)
       /\ SubSeq(chatHistory', 1, Len(chatHistory)) = chatHistory]_vars

C14_Witness ==
    /\ Len(chatHistory) >= 5
    /\ Assistants(chatHistory) >= 1 /\ UserMessages(chatHistory) >= 2
    /\ toasts # <<>>

\* t is s without the white space at its two ends
IsTrimOf(t, s) ==
    \E i \in 1..(Len(s) + 1), j \in 0..Len(s) :
        /\ t = SubSeq(s, i, j)
        /\ Blank(SubSeq(s, 1, i - 1)) /\ Blank(SubSeq(s, j + 1, Len(s)))
        /\ t # <<>> /\ t[1] # " " /\ t[Len(t)] # " "

\* C15: the request data of an accepted submission holds the trimmed text, or
\* null if that is empty, and the image selected at that moment; every request
\* sent has a text_problem or an image_data that is not null, and an image_data
\* that is not null exactly if the submission had an image.
C15_RequestCarriesInput ==
    [][/\ accepted' = accepted + 1 =>
             \E sub \in Subs' :
                 /\ sub.latest
                 /\ sub.file = selectedImage
                 /\ IF Blank(messageInput)
                    THEN sub.requestData.text_problem = nullText
                    ELSE IsTrimOf(sub.requestData.text_problem, messageInput)
       /\ \A sub \in InFlight' :
             /\ sub.requestData.text_problem # nullText
                    \/ sub.requestData.image_data # null
             /\ sub.requestData.image_data # null <=> sub.file # null]_vars

C15_Witness ==
    \E sub \in InFlight :
        /\ sub.requestData.text_problem = nullText
        /\ sub.requestData.image_data = Base64("photo.png")

\* ---------------------------------------------------------------- rendering
\* the step into this state rendered a solution: its text and the HTML made of it
Rendered == Answered(last) /\ last.data.solution.type = "string"
                /\ last.data.solution.text # ""
RawText  == last.data.solution.text
Html     == LastMessage(chatHistory).sections[1].html

\* how often, and whether, a string occurs in another
Count(s, pat) == Cardinality({i \in 1..Len(s) : At(s, i, pat)})

\* the HTML-escaped form of a text
Entity(c) ==
    CASE c = "&" -> "&amp;"
      [] c = "<" -> "&lt;"
      [] c = ">" -> "&gt;"
      [] OTHER   -> c

RECURSIVE Escaped(_)
Escaped(t) == IF t = "" THEN "" ELSE Entity(Head(t)) \o Escaped(Tail(t))

\* a text with each newline replaced by <br>
RECURSIVE Broken(_)
Broken(t) ==
    IF t = "" THEN ""
    ELSE (IF Head(t) = "\n" THEN "<br>" ELSE Head(t)) \o Broken(Tail(t))

\* the characters that make markdown tokens; a text without any of them
MarkdownChars == {Backtick, "*", "-", "+", "#", "."}
IsPlain(t) == \A i \in 1..Len(t) : CharAt(t, i) \notin MarkdownChars

HasBlankLine(t) == Includes(t, "\n\n")
\* a blank line with text after it
HasParagraph(t) == \E i \in 1..Len(t) : At(t, i, "\n\n") /\ i + 2 <= Len(t)

\* C16 as stated, for a text that neither starts nor ends with white space: the
\* HTML of a text without markdown tokens is its escaped form with each newline
\* replaced by <br>, blank lines included.
C16_PlainTextEscapedWithBreaks ==
    (Rendered /\ IsPlain(RawText) /\ trim(RawText) = RawText) =>
        Html = Broken(Escaped(RawText))

\* C16 as amended: the HTML of a text without markdown tokens and without a
\* blank line is its escaped form with each newline replaced by <br> and the
\* white space at its two ends trimmed; if the text has a blank line with text
\* after it, that text is wrapped in a <p> element.
C16_PlainTextWithoutBlankLines ==
    (Rendered /\ IsPlain(RawText)) =>
        /\ ~HasBlankLine(RawText) => Html = trim(Broken(Escaped(RawText)))
        /\ HasParagraph(RawText) => Includes(Html, "<p>") /\ Includes(Html, "</p>")

C16_Witness ==
    Rendered /\ RawText = "<\na" /\ Html = "&lt;<br>a"

\* C17: n consecutive unordered-list lines give one <ul>, one </ul>, no <ol>
\* and n items; n consecutive ordered-list lines give one <ol>, one </ol>, no
\* <ul> and n items.
C17_OneListPerRun ==
    Rendered =>
        \A n \in 1..MaxItems :
            /\ RawText = BulletRun(n) =>
                   /\ Count(Html, "<ul>") = 1 /\ Count(Html, "</ul>") = 1
                   /\ Count(Html, "<ol>") = 0
                   /\ Count(Html, "<li>") = n /\ Count(Html, "</li>") = n
            /\ RawText = NumberRun(n) =>
                   /\ Count(Html, "<ol>") = 1 /\ Count(Html, "</ol>") = 1
                   /\ Count(Html, "<ul>") = 0
                   /\ Count(Html, "<li>") = n /\ Count(Html, "</li>") = n

\* the tags the renderer writes, apart from <code class="language-...">
RendererTags ==
    {"<pre>", "</pre>", "<code>", "</code>", "<strong>", "</strong>", "<em>", "</em>",
     "<li>", "</li>", "<ul>", "</ul>", "<ol>", "</ol>", "<h1>", "</h1>", "<h2>",
     "</h2>", "<h3>", "</h3>", "<p>", "</p>", "<br>"}

\* the index after the renderer's tag that starts at i, 0 if none starts there
TagEnd(h, i) ==
    LET open == "<code class=\"language-"
        name == SkipWhile(IsLower, h, i + Len(open))
    IN  IF \E t \in RendererTags : At(h, i, t)
        THEN i + Len(CHOOSE t \in RendererTags : At(h, i, t))
        ELSE IF At(h, i, open) /\ name > i + Len(open) /\ At(h, name, "\">")
        THEN name + 2
        ELSE 0

\* every < of h starts a tag of the renderer and every > ends one
OnlyRendererTags(h) ==
    \A i \in 1..Len(h) :
        /\ CharAt(h, i) = "<" => TagEnd(h, i) # 0
        /\ CharAt(h, i) = ">" =>
               \E k \in 1..i : CharAt(h, k) = "<" /\ TagEnd(h, k) = i + 1

\* C18: every < and every > of the renderer's output belongs to a tag that the
\* renderer wrote; the markup of the input arrives escaped.
C18_NoUserMarkup == Rendered => OnlyRendererTags(Html)

C18_Witness ==
    Rendered /\ RawText = "*<*" /\ Html = "<em>&lt;</em>"

\* the text is the escaped form of some text: every & of it starts an entity
\* and it holds no < and no >
RECURSIVE IsEscapedFrom(_, _)
IsEscapedFrom(t, i) ==
    IF i > Len(t) THEN TRUE
    ELSE IF CharAt(t, i) = "&"
    THEN \E e \in {"&amp;", "&lt;", "&gt;"} :
             At(t, i, e) /\ IsEscapedFrom(t, i + Len(e))
    ELSE CharAt(t, i) \notin {"<", ">"} /\ IsEscapedFrom(t, i + 1)

IsEscaped(t) == IsEscapedFrom(t, 1)

\* C19 as stated, for a text without white space: the renderer returns a text
\* without markdown tokens that is already escaped as it is.
C19_EscapedTextUnchanged ==
    (/\ Rendered /\ IsPlain(RawText) /\ IsEscaped(RawText)
     /\ \A i \in 1..Len(RawText) : ~IsSpace(CharAt(RawText, i))) => Html = RawText

\* C19 as amended: the renderer escapes a text without markdown tokens and
\* blank lines exactly once, whether or not the text is already escaped: the &
\* of each entity of the text becomes &amp;, and a text with an entity is not
\* returned as it is.
C19_EscapedTextEscapedAgain ==
    (Rendered /\ IsPlain(RawText) /\ IsEscaped(RawText) /\ ~HasBlankLine(RawText)) =>
        /\ Html = trim(Broken(Escaped(RawText)))
        /\ Count(Html, "&amp;") = Count(RawText, "&")
        /\ Includes(RawText, "&") => Html # RawText

C19_Witness ==
    Rendered /\ RawText = "&lt;" /\ Html = "&amp;lt;"

\* the text opens a code fence and has no fence at the start of a later line
OpenFence(t) == Includes(t, Fence) /\ ~Includes(t, "\n" \o Fence)

\* C20: a text with a code fence that no fence on a line of its own closes gives
\* no <pre> and no <code> element, and its backticks stay in the text.
C20_OpenFenceStaysLiteral ==
    (Rendered /\ OpenFence(RawText)) =>
        /\ ~Includes(Html, "<pre") /\ ~Includes(Html, "<code")
        /\ Count(Html, Backtick) = Count(RawText, Backtick)

\* ---------------------------------------------------------------- interleavings
\* C21: while a POST /api/solve request is issued and not yet handled, the
\* loading indicator is visible.
C21_LoadingWhileInFlight == Requests >= 1 => ~loadingHidden

\* C22: a step that completes a submission removes exactly that submission and
\* leaves exactly one outcome: one assistant message and no toast, or one toast
\* and no assistant message; a failure gives the toast, a success the message.
\* No other step appends an assistant message, and the steps that accept a
\* submission or move it on show no toast.
C22_ExactlyOneOutcome ==
    [][/\ last'.event # "none" =>
             /\ BagCardinality(pending') = BagCardinality(pending) - 1
             /\ \/ /\ Failed(last')
                   /\ Len(toasts') = 1
                   /\ Assistants(chatHistory') = Assistants(chatHistory)
                \/ /\ ~Failed(last')
                   /\ toasts' = <<>>
                   /\ Assistants(chatHistory') = Assistants(chatHistory) + 1
       /\ last'.event = "none" =>
             /\ BagCardinality(pending') >= BagCardinality(pending)
             /\ Assistants(chatHistory') = Assistants(chatHistory)
             /\ pending' # pending => toasts' = <<>>]_vars

C22_Witness ==
    /\ last.event = "parsed" /\ last.status = 200 /\ last.data.isNull
    /\ Len(toasts) = 1 /\ Assistants(chatHistory) = 0
    /\ accepted = 1 /\ pending = EmptyBag

\* the request data of a submission and the file its reader was given
Carries(sub) == <<sub.requestData.text_problem, sub.file>>

\* C23: the submission that handleSubmit accepts holds the trimmed text (null
\* if empty) and the image of that moment; no later step changes the text or
\* the file of a submission in progress, whatever the user does meanwhile; its
\* image_data is null until the read ends and from then on the base64 form of
\* that file, so every request in flight carries the text and the image of the
\* moment of acceptance.
C23_RequestKeepsAcceptedInput ==
    [][/\ accepted' = accepted + 1 =>
             \E sub \in Subs' :
                 /\ sub.latest
                 /\ sub.file = selectedImage
                 /\ sub.requestData.text_problem =
                        (IF Blank(messageInput) THEN nullText ELSE trim(messageInput))
       /\ \A next \in Subs' :
             (accepted' = accepted \/ ~next.latest) => \E sub \in Subs :
                 /\ Carries(next) = Carries(sub)
                 /\ \/ next.requestData.image_data = sub.requestData.image_data
                    \/ /\ sub.stage = "reading" /\ next.stage = "fetching"
                       /\ next.requestData.image_data = Base64(sub.file)
       /\ \A sub \in Subs' :
             sub.requestData.image_data =
                 IF sub.stage = "reading" \/ sub.file = null THEN null
                 ELSE Base64(sub.file)]_vars

\* a request with the text and the image of its submission is in flight while
\* the field holds other text and no image is selected
C23_Witness ==
    /\ ~idle /\ messageInput = <<" ">> /\ selectedImage = null
    /\ \E sub \in InFlight :
           /\ sub.requestData.text_problem = <<"x">>
           /\ sub.file = "photo.png"
           /\ sub.requestData.image_data = Base64("photo.png")

\* C24: a step that completes a submission leaves the text and the image that
\* the user has put in since the latest submission was accepted as they are.
C24_CompletionKeepsNewInput ==
    [][(last'.event # "none" /\ ~idle) =>
          messageInput' = messageInput /\ selectedImage' = selectedImage]_vars

\* C25: the preview container is shown only while an image is selected.
C25_PreviewOnlyWithImage == ~previewHidden => selectedImage # null

====
